---- MODULE Spec2Model ----
(***************************************************************************)
(* Model of the Nintendo Wii 'mini' OHCI bus glue (drivers/usb/host/       *)
(* ohci-mipc.c: probe, start, remove, shutdown) and of the Wii board power *)
(* hooks (arch/powerpc/platforms/embedded6xx/wii.c: restart, power_off,    *)
(* halt, machine_kexec).                                                   *)
(*                                                                         *)
(* Spec       two controller instances (OHCI slot 0 and slot 1) are        *)
(*            probed, shut down and removed; their steps interleave, in    *)
(*            particular the read and the write of HOLLYWOOD_EHCI_CTL.     *)
(* SpecPower  one of the machine power hooks runs to its terminal state.   *)
(*                                                                         *)
(* Register values are 32-bit words; every value the model builds is an    *)
(* OR of values below 2^20, so no arithmetic leaves the 32-bit range.      *)
(***************************************************************************)
EXTENDS Integers, Sequences, FiniteSets, TLC

\* ------------------------------------------------------------------------
\* Program constants
\* ------------------------------------------------------------------------
HOLLYWOOD_EHCI_CTL_OH0INTE == 2048
HOLLYWOOD_EHCI_CTL_OH1INTE == 4096
EHCI_CTL_FIXED == 917504
ENOMEM == 12
EBUSY == 16
ENODEV == 19
NO_IRQ == 0

\* The two OHCI controller instances of the Hollywood chipset.
Slots == {0, 1}

\* Interrupt-enable bit that belongs to a slot.
SlotBit(s) == IF s = 0 THEN HOLLYWOOD_EHCI_CTL_OH0INTE
                       ELSE HOLLYWOOD_EHCI_CTL_OH1INTE

\* Virtual interrupt number the platform hands out for a slot's line.
Virq(s) == s + 1

\* ------------------------------------------------------------------------
\* Bounds of the model
\* ------------------------------------------------------------------------
\* Error codes the collaborators (resource lookup, bus, engine) may return
\* are -1 .. -MaxErr.
MaxErr == 2
ErrCodes == {-c : c \in 1..MaxErr}

\* Rounds of a terminal cpu_relax() loop the model follows.
MaxSpin == 2

\* Initial contents of the shared register.
RegInitValues == {0, 2049}

\* ------------------------------------------------------------------------
\* Bitwise helpers on 32-bit words
\* ------------------------------------------------------------------------
RECURSIVE BitOr(_, _)
BitOr(a, b) ==
    IF a = 0 THEN b
    ELSE IF b = 0 THEN a
    ELSE (IF a % 2 = 1 \/ b % 2 = 1 THEN 1 ELSE 0)
         + 2 * BitOr(a \div 2, b \div 2)

RECURSIVE BitAnd(_, _)
BitAnd(a, b) ==
    IF a = 0 \/ b = 0 THEN 0
    ELSE (IF a % 2 = 1 /\ b % 2 = 1 THEN 1 ELSE 0)
         + 2 * BitAnd(a \div 2, b \div 2)

\* a with the bits of m cleared
BitClear(a, m) == a - BitAnd(a, m)

\* ------------------------------------------------------------------------
\* State
\* ------------------------------------------------------------------------
VARIABLES
    platform,   \* usb_disabled() and starlet_get_ipc_flavour()
    reg,        \* contents of HOLLYWOOD_EHCI_CTL
    reg0,       \* history: contents of the register at start
    pc,         \* per slot: position in probe / remove
    inj,        \* per slot: history, the collaborator failure injected
                \* into the current call (point "none": no failure)
    hcd,        \* per slot: the usb_hcd handle
    irqmap,     \* set of virqs with a live mapping
    irqaction,  \* set of virqs with a handler installed (request_irq)
    tmp,        \* per slot: value returned by mipc_in_be32
    error,      \* per slot: local 'error' of the probe
    ret,        \* per slot: value the last call returned
    log,        \* per slot: events of the current or last call
    pre,        \* per slot: history, resources held when the call began
    ppc,        \* power hooks: position
    op,         \* power hooks: which machine hook runs
    irqs_on,    \* local interrupt state of the CPU
    effect,     \* which remote calls take effect (input)
    calls,      \* power hooks: calls made so far, in order
    spins       \* cpu_relax() rounds of the terminal loop

usbvars == <<platform, reg, reg0, pc, inj, hcd, irqmap, irqaction, tmp,
             error, ret, log, pre>>
pwrvars == <<ppc, op, irqs_on, effect, calls, spins>>
vars == <<platform, reg, reg0, pc, inj, hcd, irqmap, irqaction, tmp,
          error, ret, log, pre, ppc, op, irqs_on, effect, calls, spins>>

\* ------------------------------------------------------------------------
\* Controller handle
\* ------------------------------------------------------------------------
\* No handle allocated.
NoHcd == [live |-> FALSE, irq |-> 0, regs |-> FALSE, engine |-> "none",
          registered |-> FALSE]

\* usb_create_hcd: zeroed handle with the engine private area.
NewHcd == [live |-> TRUE, irq |-> 0, regs |-> FALSE, engine |-> "none",
           registered |-> FALSE]

\* Return values of a collaborator: 0 or an error code.
Returns == {0} \cup ErrCodes

\* Resources a slot holds: its handle and the mapping of its line.
Held(s) == [handle |-> hcd[s].live, irq |-> Virq(s) \in irqmap]

\* The last call on slot s was a probe / a remove and it has returned.
Last(q) == q[Len(q)]
ProbeReturned(s) ==
    Len(log[s]) > 0 /\ log[s][1] = "probe" /\ Last(log[s]) = "return"
RemoveReturned(s) ==
    Len(log[s]) > 0 /\ log[s][1] = "remove" /\ Last(log[s]) = "return"
ProbeFailed(s) == ProbeReturned(s) /\ ret[s] # 0
Events(s) == {log[s][k] : k \in 1..Len(log[s])}

Emit(s, evs) == [log EXCEPT ![s] = @ \o evs]

InitUsb ==
    /\ platform \in [usb_disabled : BOOLEAN, ipc_flavour : {"MINI", "IOS"}]
    /\ reg \in RegInitValues
    /\ reg0 = reg
    /\ pc = [s \in Slots |-> "unbound"]
    /\ inj = [s \in Slots |-> [point |-> "none", code |-> 0]]
    /\ hcd = [s \in Slots |-> NoHcd]
    /\ irqmap = {}
    /\ irqaction = {}
    /\ tmp = [s \in Slots |-> 0]
    /\ error = [s \in Slots |-> 0]
    /\ ret = [s \in Slots |-> 0]
    /\ log = [s \in Slots |-> <<>>]
    /\ pre = [s \in Slots |-> [handle |-> FALSE, irq |-> FALSE,
                                retry |-> FALSE]]

\* ------------------------------------------------------------------------
\* ohci_hcd_mipc_probe (bring_up), one action per step.  The value a
\* collaborator returns is the step's input r (0: success).
\* ------------------------------------------------------------------------
Failure(p, r) == [point |-> p, code |-> r]

\* Variant of the entry without the IPC flavour gate.
probe_of_address_to_resource_anyflavour(s, r) ==
    /\ pc[s] = "unbound"
    /\ pre' = [pre EXCEPT ![s] = [handle |-> hcd[s].live,
                                  irq |-> Virq(s) \in irqmap,
                                  retry |-> ProbeFailed(s)]]
    /\ tmp' = [tmp EXCEPT ![s] = 0]
    /\ IF platform.usb_disabled
       THEN /\ ret' = [ret EXCEPT ![s] = -ENODEV]
            /\ log' = [log EXCEPT ![s] = <<"probe", "return">>]
            /\ inj' = [inj EXCEPT ![s] = Failure("gate", 0)]
            /\ error' = [error EXCEPT ![s] = 0]
            /\ UNCHANGED pc
       ELSE /\ log' = [log EXCEPT ![s] = <<"probe", "of_address_to_resource">>]
            /\ error' = [error EXCEPT ![s] = r]
            /\ IF r # 0
               THEN /\ inj' = [inj EXCEPT ![s] = Failure("resource", r)]
                    /\ pc' = [pc EXCEPT ![s] = "out"]
               ELSE /\ inj' = [inj EXCEPT ![s] = Failure("none", 0)]
                    /\ pc' = [pc EXCEPT ![s] = "create"]
            /\ UNCHANGED ret
    /\ UNCHANGED <<platform, reg, reg0, hcd, irqmap, irqaction>>
    /\ UNCHANGED pwrvars

\* Variant of the entry that carries on after a failed lookup.
probe_of_address_to_resource_goon(s, r) ==
    /\ pc[s] = "unbound"
    /\ pre' = [pre EXCEPT ![s] = [handle |-> hcd[s].live,
                                  irq |-> Virq(s) \in irqmap,
                                  retry |-> ProbeFailed(s)]]
    /\ tmp' = [tmp EXCEPT ![s] = 0]
    /\ IF platform.usb_disabled \/ platform.ipc_flavour # "MINI"
       THEN /\ ret' = [ret EXCEPT ![s] = -ENODEV]
            /\ log' = [log EXCEPT ![s] = <<"probe", "return">>]
            /\ inj' = [inj EXCEPT ![s] = Failure("gate", 0)]
            /\ error' = [error EXCEPT ![s] = 0]
            /\ UNCHANGED pc
       ELSE /\ log' = [log EXCEPT ![s] = <<"probe", "of_address_to_resource">>]
            /\ error' = [error EXCEPT ![s] = r]
            /\ inj' = [inj EXCEPT ![s] =
                         IF r # 0 THEN Failure("resource", r)
                                  ELSE Failure("none", 0)]
            /\ pc' = [pc EXCEPT ![s] = "create"]
            /\ UNCHANGED ret
    /\ UNCHANGED <<platform, reg, reg0, hcd, irqmap, irqaction>>
    /\ UNCHANGED pwrvars

\* Entry: the usb_disabled / IPC flavour gates, then of_address_to_resource.
probe_of_address_to_resource(s, r) ==
    /\ pc[s] = "unbound"
    /\ pre' = [pre EXCEPT ![s] = [handle |-> hcd[s].live,
                                  irq |-> Virq(s) \in irqmap,
                                  retry |-> ProbeFailed(s)]]
    /\ tmp' = [tmp EXCEPT ![s] = 0]
    /\ IF platform.usb_disabled \/ platform.ipc_flavour # "MINI"
       THEN /\ ret' = [ret EXCEPT ![s] = -ENODEV]
            /\ log' = [log EXCEPT ![s] = <<"probe", "return">>]
            /\ inj' = [inj EXCEPT ![s] = Failure("gate", 0)]
            /\ error' = [error EXCEPT ![s] = 0]
            /\ UNCHANGED pc
       ELSE /\ log' = [log EXCEPT ![s] = <<"probe", "of_address_to_resource">>]
            /\ error' = [error EXCEPT ![s] = r]
            /\ IF r # 0
               THEN /\ inj' = [inj EXCEPT ![s] = Failure("resource", r)]
                    /\ pc' = [pc EXCEPT ![s] = "out"]
               ELSE /\ inj' = [inj EXCEPT ![s] = Failure("none", 0)]
                    /\ pc' = [pc EXCEPT ![s] = "create"]
            /\ UNCHANGED ret
    /\ UNCHANGED <<platform, reg, reg0, hcd, irqmap, irqaction>>
    /\ UNCHANGED pwrvars

\* usb_create_hcd (ok: the allocation succeeds) and the copy of the
\* register window into the handle.
probe_usb_create_hcd(s, ok) ==
    /\ pc[s] = "create"
    /\ log' = Emit(s, <<"usb_create_hcd">>)
    /\ IF ~ok
       THEN /\ error' = [error EXCEPT ![s] = -ENOMEM]
            /\ inj' = [inj EXCEPT ![s] = Failure("alloc", 0)]
            /\ pc' = [pc EXCEPT ![s] = "out"]
            /\ UNCHANGED hcd
       ELSE /\ hcd' = [hcd EXCEPT ![s] = NewHcd]
            /\ pc' = [pc EXCEPT ![s] = "irq"]
            /\ UNCHANGED <<error, inj>>
    /\ UNCHANGED <<platform, reg, reg0, irqmap, irqaction, tmp, ret, pre>>
    /\ UNCHANGED pwrvars

\* Variant without the NO_IRQ check.
probe_irq_of_parse_and_map_nocheck(s, irq) ==
    /\ pc[s] = "irq"
    /\ log' = Emit(s, <<"irq_of_parse_and_map">>)
    /\ irqmap' = IF irq = NO_IRQ THEN irqmap ELSE irqmap \cup {irq}
    /\ inj' = [inj EXCEPT ![s] = IF irq = NO_IRQ THEN Failure("irq", 0) ELSE @]
    /\ hcd' = [hcd EXCEPT ![s].regs = TRUE]
    /\ pc' = [pc EXCEPT ![s] = "add_hcd"]
    /\ UNCHANGED <<platform, reg, reg0, irqaction, tmp, error, ret, pre>>
    /\ UNCHANGED pwrvars

\* Variant of the NO_IRQ path that jumps to out instead of err_irq.
probe_irq_of_parse_and_map_leak(s, irq) ==
    /\ pc[s] = "irq"
    /\ log' = Emit(s, <<"irq_of_parse_and_map">>)
    /\ IF irq = NO_IRQ
       THEN /\ error' = [error EXCEPT ![s] = -EBUSY]
            /\ inj' = [inj EXCEPT ![s] = Failure("irq", 0)]
            /\ pc' = [pc EXCEPT ![s] = "out"]
            /\ UNCHANGED <<hcd, irqmap>>
       ELSE /\ irqmap' = irqmap \cup {irq}
            /\ hcd' = [hcd EXCEPT ![s].regs = TRUE]
            /\ pc' = [pc EXCEPT ![s] = "add_hcd"]
            /\ UNCHANGED <<error, inj>>
    /\ UNCHANGED <<platform, reg, reg0, irqaction, tmp, ret, pre>>
    /\ UNCHANGED pwrvars

\* irq_of_parse_and_map (irq: the virq it returns, or NO_IRQ), then
\* hcd->regs and ohci_hcd_init.
probe_irq_of_parse_and_map(s, irq) ==
    /\ pc[s] = "irq"
    /\ log' = Emit(s, <<"irq_of_parse_and_map">>)
    /\ IF irq = NO_IRQ
       THEN /\ error' = [error EXCEPT ![s] = -EBUSY]
            /\ inj' = [inj EXCEPT ![s] = Failure("irq", 0)]
            /\ pc' = [pc EXCEPT ![s] = "err_irq"]
            /\ UNCHANGED <<hcd, irqmap>>
       ELSE /\ irqmap' = irqmap \cup {irq}
            /\ hcd' = [hcd EXCEPT ![s].regs = TRUE]
            /\ pc' = [pc EXCEPT ![s] = "add_hcd"]
            /\ UNCHANGED <<error, inj>>
    /\ UNCHANGED <<platform, reg, reg0, irqaction, tmp, ret, pre>>
    /\ UNCHANGED pwrvars

\* usb_add_hcd up to the call of the driver's start hook: the bus is set up
\* and the interrupt handler installed (not shared: the line must be free).
usb_add_hcd_request_irq(s, r) ==
    /\ pc[s] = "add_hcd"
    /\ log' = Emit(s, <<"usb_add_hcd">>)
    /\ IF r # 0 \/ Virq(s) \in irqaction
       THEN /\ error' = [error EXCEPT ![s] = IF r # 0 THEN r ELSE -EBUSY]
            /\ inj' = [inj EXCEPT ![s] =
                         IF r # 0 THEN Failure("request", r) ELSE @]
            /\ pc' = [pc EXCEPT ![s] = "err_add_hcd"]
            /\ UNCHANGED <<hcd, irqaction>>
       ELSE /\ irqaction' = irqaction \cup {Virq(s)}
            /\ hcd' = [hcd EXCEPT ![s].irq = Virq(s)]
            /\ pc' = [pc EXCEPT ![s] = "start_init"]
            /\ UNCHANGED <<error, inj>>
    /\ UNCHANGED <<platform, reg, reg0, irqmap, tmp, ret, pre>>
    /\ UNCHANGED pwrvars

\* Variant that enables the interrupts although ohci_init failed.
ohci_mipc_start_init_ungated(s, r) ==
    /\ pc[s] = "start_init"
    /\ log' = Emit(s, <<"ohci_init">>)
    /\ error' = [error EXCEPT ![s] = r]
    /\ inj' = [inj EXCEPT ![s] = IF r # 0 THEN Failure("init", r) ELSE @]
    /\ hcd' = [hcd EXCEPT ![s].engine = IF r # 0 THEN @ ELSE "initialized"]
    /\ pc' = [pc EXCEPT ![s] = "start_read"]
    /\ UNCHANGED <<platform, reg, reg0, irqmap, irqaction, tmp, ret, pre>>
    /\ UNCHANGED pwrvars

\* ohci_mipc_start: ohci_init.  On failure start returns the code and
\* usb_add_hcd frees the interrupt handler and returns it to the probe.
ohci_mipc_start_init(s, r) ==
    /\ pc[s] = "start_init"
    /\ log' = Emit(s, <<"ohci_init">>)
    /\ IF r # 0
       THEN /\ error' = [error EXCEPT ![s] = r]
            /\ inj' = [inj EXCEPT ![s] = Failure("init", r)]
            /\ irqaction' = irqaction \ {Virq(s)}
            /\ pc' = [pc EXCEPT ![s] = "err_add_hcd"]
            /\ UNCHANGED hcd
       ELSE /\ hcd' = [hcd EXCEPT ![s].engine = "initialized"]
            /\ pc' = [pc EXCEPT ![s] = "start_read"]
            /\ UNCHANGED <<error, inj, irqaction>>
    /\ UNCHANGED <<platform, reg, reg0, irqmap, tmp, ret, pre>>
    /\ UNCHANGED pwrvars

\* ohci_mipc_start: mipc_in_be32(ehci_ctl).
ohci_mipc_start_read(s) ==
    /\ pc[s] = "start_read"
    /\ log' = Emit(s, <<"mipc_in_be32">>)
    /\ tmp' = [tmp EXCEPT ![s] = reg]
    /\ pc' = [pc EXCEPT ![s] = "start_write"]
    /\ UNCHANGED <<platform, reg, reg0, inj, hcd, irqmap, irqaction, error,
                   ret, pre>>
    /\ UNCHANGED pwrvars

\* Variant that writes the enable bits without the value read.
EhciCtlEnable_clobber(s, v) ==
    EHCI_CTL_FIXED + HOLLYWOOD_EHCI_CTL_OH0INTE + HOLLYWOOD_EHCI_CTL_OH1INTE

\* Variant that enables only the calling slot's own bit.
EhciCtlEnable_own(s, v) == BitOr(v, EHCI_CTL_FIXED + SlotBit(s))

\* Value ohci_mipc_start writes back, given the value it read.
EhciCtlEnable(s, v) ==
    BitOr(v, EHCI_CTL_FIXED + HOLLYWOOD_EHCI_CTL_OH0INTE
                            + HOLLYWOOD_EHCI_CTL_OH1INTE)

\* ohci_mipc_start: mipc_out_be32(ehci_ctl, ...).
ohci_mipc_start_write(s) ==
    /\ pc[s] = "start_write"
    /\ log' = Emit(s, <<"mipc_out_be32">>)
    /\ reg' = EhciCtlEnable(s, tmp[s])
    /\ pc' = [pc EXCEPT ![s] = "start_run"]
    /\ UNCHANGED <<platform, reg0, inj, hcd, irqmap, irqaction, tmp, error,
                   ret, pre>>
    /\ UNCHANGED pwrvars

\* Variant of the ohci_run failure path without ohci_stop.
ohci_mipc_start_run_nostop(s, r) ==
    /\ pc[s] = "start_run"
    /\ IF r # 0
       THEN /\ log' = Emit(s, <<"ohci_run", "err">>)
            /\ error' = [error EXCEPT ![s] = r]
            /\ inj' = [inj EXCEPT ![s] = Failure("run", r)]
            /\ irqaction' = irqaction \ {Virq(s)}
            /\ pc' = [pc EXCEPT ![s] = "err_add_hcd"]
            /\ UNCHANGED hcd
       ELSE /\ log' = Emit(s, <<"ohci_run">>)
            /\ hcd' = [hcd EXCEPT ![s].engine = "running"]
            /\ pc' = [pc EXCEPT ![s] = "register"]
            /\ UNCHANGED <<error, inj, irqaction>>
    /\ UNCHANGED <<platform, reg, reg0, irqmap, tmp, ret, pre>>
    /\ UNCHANGED pwrvars

\* ohci_mipc_start: ohci_run.  On failure: err(), ohci_stop, return the
\* code; usb_add_hcd frees the interrupt handler and returns it.
ohci_mipc_start_run(s, r) ==
    /\ pc[s] = "start_run"
    /\ IF r # 0
       THEN /\ log' = Emit(s, <<"ohci_run", "err", "ohci_stop">>)
            /\ hcd' = [hcd EXCEPT ![s].engine = "halted"]
            /\ error' = [error EXCEPT ![s] = r]
            /\ inj' = [inj EXCEPT ![s] = Failure("run", r)]
            /\ irqaction' = irqaction \ {Virq(s)}
            /\ pc' = [pc EXCEPT ![s] = "err_add_hcd"]
       ELSE /\ log' = Emit(s, <<"ohci_run">>)
            /\ hcd' = [hcd EXCEPT ![s].engine = "running"]
            /\ pc' = [pc EXCEPT ![s] = "register"]
            /\ UNCHANGED <<error, inj, irqaction>>
    /\ UNCHANGED <<platform, reg, reg0, irqmap, tmp, ret, pre>>
    /\ UNCHANGED pwrvars

\* usb_add_hcd after start: register the root hub with the bus.  On
\* failure the driver's stop hook runs and the handler is freed; on
\* success the probe returns 0.
usb_add_hcd_register(s, r) ==
    /\ pc[s] = "register"
    /\ IF r # 0
       THEN /\ log' = Emit(s, <<"register_root_hub", "ohci_stop">>)
            /\ hcd' = [hcd EXCEPT ![s].engine = "halted"]
            /\ error' = [error EXCEPT ![s] = r]
            /\ inj' = [inj EXCEPT ![s] = Failure("register", r)]
            /\ irqaction' = irqaction \ {Virq(s)}
            /\ pc' = [pc EXCEPT ![s] = "err_add_hcd"]
            /\ UNCHANGED ret
       ELSE /\ log' = Emit(s, <<"register_root_hub", "return">>)
            /\ hcd' = [hcd EXCEPT ![s].registered = TRUE]
            /\ ret' = [ret EXCEPT ![s] = 0]
            /\ pc' = [pc EXCEPT ![s] = "bound"]
            /\ UNCHANGED <<error, inj, irqaction>>
    /\ UNCHANGED <<platform, reg, reg0, irqmap, tmp, pre>>
    /\ UNCHANGED pwrvars

\* Variant of err_add_hcd that forgets irq_dispose_mapping.
probe_err_add_hcd_leak(s) ==
    /\ pc[s] = "err_add_hcd"
    /\ log' = Emit(s, <<"irq_dispose_mapping">>)
    /\ pc' = [pc EXCEPT ![s] = "err_irq"]
    /\ UNCHANGED <<platform, reg, reg0, inj, hcd, irqmap, irqaction, tmp,
                   error, ret, pre>>
    /\ UNCHANGED pwrvars

\* err_add_hcd: irq_dispose_mapping(irq).
probe_err_add_hcd(s) ==
    /\ pc[s] = "err_add_hcd"
    /\ log' = Emit(s, <<"irq_dispose_mapping">>)
    /\ irqmap' = irqmap \ {Virq(s)}
    /\ pc' = [pc EXCEPT ![s] = "err_irq"]
    /\ UNCHANGED <<platform, reg, reg0, inj, hcd, irqaction, tmp, error, ret,
                   pre>>
    /\ UNCHANGED pwrvars

\* err_irq: usb_put_hcd(hcd).
probe_err_irq(s) ==
    /\ pc[s] = "err_irq"
    /\ log' = Emit(s, <<"usb_put_hcd">>)
    /\ hcd' = [hcd EXCEPT ![s] = NoHcd]
    /\ pc' = [pc EXCEPT ![s] = "out"]
    /\ UNCHANGED <<platform, reg, reg0, inj, irqmap, irqaction, tmp, error,
                   ret, pre>>
    /\ UNCHANGED pwrvars

\* Variant of out that returns 0.
probe_out_zero(s) ==
    /\ pc[s] = "out"
    /\ log' = Emit(s, <<"return">>)
    /\ ret' = [ret EXCEPT ![s] = 0]
    /\ pc' = [pc EXCEPT ![s] = "unbound"]
    /\ UNCHANGED <<platform, reg, reg0, inj, hcd, irqmap, irqaction, tmp,
                   error, pre>>
    /\ UNCHANGED pwrvars

\* out: return error.
probe_out(s) ==
    /\ pc[s] = "out"
    /\ log' = Emit(s, <<"return">>)
    /\ ret' = [ret EXCEPT ![s] = error[s]]
    /\ pc' = [pc EXCEPT ![s] = "unbound"]
    /\ UNCHANGED <<platform, reg, reg0, inj, hcd, irqmap, irqaction, tmp,
                   error, pre>>
    /\ UNCHANGED pwrvars

\* ------------------------------------------------------------------------
\* ohci_hcd_mipc_remove (tear_down), one action per step
\* ------------------------------------------------------------------------
\* Variant of the first remove step that leaves the controller registered.
remove_usb_remove_hcd_skip(s) ==
    /\ pc[s] = "bound"
    /\ log' = [log EXCEPT ![s] = <<"remove">>]
    /\ pc' = [pc EXCEPT ![s] = "remove_irq"]
    /\ UNCHANGED <<platform, reg, reg0, inj, hcd, irqmap, irqaction, tmp,
                   error, ret, pre>>
    /\ UNCHANGED pwrvars

\* usb_remove_hcd: unregister from the bus, run the driver's stop hook
\* (ohci_stop), free the interrupt handler.
remove_usb_remove_hcd(s) ==
    /\ pc[s] = "bound"
    /\ log' = [log EXCEPT ![s] = <<"remove", "usb_remove_hcd", "ohci_stop">>]
    /\ hcd' = [hcd EXCEPT ![s].registered = FALSE, ![s].engine = "halted"]
    /\ irqaction' = irqaction \ {hcd[s].irq}
    /\ pc' = [pc EXCEPT ![s] = "remove_irq"]
    /\ UNCHANGED <<platform, reg, reg0, inj, irqmap, tmp, error, ret, pre>>
    /\ UNCHANGED pwrvars

\* Variant of the second remove step that keeps the mapping.
remove_irq_dispose_mapping_skip(s) ==
    /\ pc[s] = "remove_irq"
    /\ log' = Emit(s, <<"irq_dispose_mapping">>)
    /\ pc' = [pc EXCEPT ![s] = "remove_put"]
    /\ UNCHANGED <<platform, reg, reg0, inj, hcd, irqmap, irqaction, tmp,
                   error, ret, pre>>
    /\ UNCHANGED pwrvars

\* irq_dispose_mapping(hcd->irq).
remove_irq_dispose_mapping(s) ==
    /\ pc[s] = "remove_irq"
    /\ log' = Emit(s, <<"irq_dispose_mapping">>)
    /\ irqmap' = irqmap \ {hcd[s].irq}
    /\ pc' = [pc EXCEPT ![s] = "remove_put"]
    /\ UNCHANGED <<platform, reg, reg0, inj, hcd, irqaction, tmp, error, ret,
                   pre>>
    /\ UNCHANGED pwrvars

\* usb_put_hcd(hcd); return 0.
remove_usb_put_hcd(s) ==
    /\ pc[s] = "remove_put"
    /\ log' = Emit(s, <<"usb_put_hcd", "return">>)
    /\ hcd' = [hcd EXCEPT ![s] = NoHcd]
    /\ ret' = [ret EXCEPT ![s] = 0]
    /\ pc' = [pc EXCEPT ![s] = "unbound"]
    /\ UNCHANGED <<platform, reg, reg0, inj, irqmap, irqaction, tmp, error,
                   pre>>
    /\ UNCHANGED pwrvars

\* ------------------------------------------------------------------------
\* ohci_hcd_mipc_shutdown
\* ------------------------------------------------------------------------
\* The handle of the bound device is handed to the driver's shutdown hook
\* (ohci_shutdown, always set in ohci_mipc_hc_driver), which shuts the
\* engine down; the controller stays registered, with its mapping and its
\* handler.  Returns 0.
ohci_hcd_mipc_shutdown(s) ==
    /\ pc[s] = "bound"
    /\ log' = [log EXCEPT ![s] = <<"shutdown", "ohci_shutdown", "return">>]
    /\ hcd' = [hcd EXCEPT ![s].engine = "shutdown"]
    /\ ret' = [ret EXCEPT ![s] = 0]
    /\ UNCHANGED <<platform, reg, reg0, pc, inj, irqmap, irqaction, tmp,
                   error, pre>>
    /\ UNCHANGED pwrvars

\* ------------------------------------------------------------------------
\* Wii machine hooks: restart, power_off, halt, machine_kexec
\* ------------------------------------------------------------------------
\* Remote calls to the I/O processor that may hand control away.
RemoteCalls == {"starlet_es_reload_ios_and_launch", "starlet_stm_restart",
                "starlet_stm_power_off", "starlet_es_reload_ios_and_discard"}

\* A remote call is fire and forget: it either takes effect or returns
\* with nothing changed.
StarletCall(name) == effect[name]

\* wii_restart: local_irq_disable().
wii_restart_body(cmd) ==
    /\ irqs_on' = FALSE
    /\ calls' = Append(calls, "local_irq_disable")
    /\ ppc' = "restart_primary"
    /\ UNCHANGED <<effect, spins>>

wii_restart(cmd) ==
    /\ ppc = "active"
    /\ op' = "restart"
    /\ wii_restart_body(cmd)
    /\ UNCHANGED usbvars

\* Variant of wii_halt that takes the power-off path.
wii_halt_as_power_off ==
    /\ ppc = "active"
    /\ op' = "halt"
    /\ irqs_on' = FALSE
    /\ calls' = Append(calls, "local_irq_disable")
    /\ ppc' = "power_off_call"
    /\ UNCHANGED <<effect, spins>>
    /\ UNCHANGED usbvars

\* wii_halt: wii_restart(NULL).
wii_halt ==
    /\ ppc = "active"
    /\ op' = "halt"
    /\ wii_restart_body("NULL")
    /\ UNCHANGED usbvars

\* Variant of the primary step that spins when the launch has no effect.
wii_restart_primary_nofallback ==
    /\ ppc = "restart_primary"
    /\ calls' = Append(calls, "starlet_es_reload_ios_and_launch")
    /\ ppc' = IF StarletCall("starlet_es_reload_ios_and_launch")
              THEN "gone" ELSE "restart_spin"
    /\ UNCHANGED <<op, irqs_on, effect, spins>>
    /\ UNCHANGED usbvars

\* wii_restart: starlet_es_reload_ios_and_launch(STARLET_TITLE_HBC).
wii_restart_primary ==
    /\ ppc = "restart_primary"
    /\ calls' = Append(calls, "starlet_es_reload_ios_and_launch")
    /\ ppc' = IF StarletCall("starlet_es_reload_ios_and_launch")
              THEN "gone" ELSE "restart_fallback"
    /\ UNCHANGED <<op, irqs_on, effect, spins>>
    /\ UNCHANGED usbvars

\* wii_restart: starlet_stm_restart().
wii_restart_fallback ==
    /\ ppc = "restart_fallback"
    /\ calls' = Append(calls, "starlet_stm_restart")
    /\ ppc' = IF StarletCall("starlet_stm_restart")
              THEN "gone" ELSE "restart_spin"
    /\ UNCHANGED <<op, irqs_on, effect, spins>>
    /\ UNCHANGED usbvars

\* Variant of the terminal loop that retries the assisted restart.
wii_restart_spin_retry ==
    /\ ppc = "restart_spin"
    /\ spins < MaxSpin
    /\ spins' = spins + 1
    /\ calls' = Append(calls, "starlet_stm_restart")
    /\ UNCHANGED <<ppc, op, irqs_on, effect>>
    /\ UNCHANGED usbvars

\* wii_restart: for (;;) cpu_relax();
wii_restart_spin ==
    /\ ppc = "restart_spin"
    /\ spins < MaxSpin
    /\ spins' = spins + 1
    /\ UNCHANGED <<ppc, op, irqs_on, effect, calls>>
    /\ UNCHANGED usbvars

\* Variant of wii_power_off that leaves the interrupt state alone.
wii_power_off_irqs_left ==
    /\ ppc = "active"
    /\ op' = "power_off"
    /\ calls' = Append(calls, "local_irq_disable")
    /\ ppc' = "power_off_call"
    /\ UNCHANGED <<irqs_on, effect, spins>>
    /\ UNCHANGED usbvars

\* wii_power_off: local_irq_disable().
wii_power_off ==
    /\ ppc = "active"
    /\ op' = "power_off"
    /\ irqs_on' = FALSE
    /\ calls' = Append(calls, "local_irq_disable")
    /\ ppc' = "power_off_call"
    /\ UNCHANGED <<effect, spins>>
    /\ UNCHANGED usbvars

\* wii_power_off: starlet_stm_power_off().
wii_power_off_call ==
    /\ ppc = "power_off_call"
    /\ calls' = Append(calls, "starlet_stm_power_off")
    /\ ppc' = IF StarletCall("starlet_stm_power_off")
              THEN "gone" ELSE "power_off_spin"
    /\ UNCHANGED <<op, irqs_on, effect, spins>>
    /\ UNCHANGED usbvars

\* wii_power_off: for (;;) cpu_relax();
wii_power_off_spin ==
    /\ ppc = "power_off_spin"
    /\ spins < MaxSpin
    /\ spins' = spins + 1
    /\ UNCHANGED <<ppc, op, irqs_on, effect, calls>>
    /\ UNCHANGED usbvars

\* wii_machine_kexec: local_irq_disable().
wii_machine_kexec ==
    /\ ppc = "active"
    /\ op' = "kexec"
    /\ irqs_on' = FALSE
    /\ calls' = Append(calls, "local_irq_disable")
    /\ ppc' = "kexec_discard"
    /\ UNCHANGED <<effect, spins>>
    /\ UNCHANGED usbvars

\* Variant that jumps only when the discard took effect.
wii_machine_kexec_discard_gated ==
    /\ ppc = "kexec_discard"
    /\ calls' = Append(calls, "starlet_es_reload_ios_and_discard")
    /\ ppc' = IF StarletCall("starlet_es_reload_ios_and_discard")
              THEN "kexec_jump" ELSE "power_off_spin"
    /\ UNCHANGED <<op, irqs_on, effect, spins>>
    /\ UNCHANGED usbvars

\* wii_machine_kexec: starlet_es_reload_ios_and_discard(); its outcome is
\* not looked at.
wii_machine_kexec_discard ==
    /\ ppc = "kexec_discard"
    /\ calls' = Append(calls, "starlet_es_reload_ios_and_discard")
    /\ ppc' = "kexec_jump"
    /\ UNCHANGED <<op, irqs_on, effect, spins>>
    /\ UNCHANGED usbvars

\* wii_machine_kexec: default_machine_kexec(image).
wii_machine_kexec_jump ==
    /\ ppc = "kexec_jump"
    /\ calls' = Append(calls, "default_machine_kexec")
    /\ ppc' = "jumped"
    /\ UNCHANGED <<op, irqs_on, effect, spins>>
    /\ UNCHANGED usbvars

\* No machine hook has been called.
InitPowerIdle ==
    /\ ppc = "active"
    /\ op = "none"
    /\ irqs_on = TRUE
    /\ effect = [c \in RemoteCalls |-> FALSE]
    /\ calls = <<>>
    /\ spins = 0

\* A machine hook is about to be called; the outcome of every remote call
\* and the interrupt state of the caller are inputs.
InitPower ==
    /\ InitUsb
    /\ ~platform.usb_disabled
    /\ platform.ipc_flavour = "MINI"
    /\ reg = 0
    /\ ppc = "active"
    /\ op = "none"
    /\ irqs_on \in BOOLEAN
    /\ effect \in [RemoteCalls -> BOOLEAN]
    /\ calls = <<>>
    /\ spins = 0

Cmds == {"NULL", "cmd"}

NextPower ==
    \/ \E cmd \in Cmds : wii_restart(cmd)
    \/ wii_halt
    \/ wii_restart_primary
    \/ wii_restart_fallback
    \/ wii_restart_spin
    \/ wii_power_off
    \/ wii_power_off_call
    \/ wii_power_off_spin
    \/ wii_machine_kexec
    \/ wii_machine_kexec_discard
    \/ wii_machine_kexec_jump

SpecPower == InitPower /\ [][NextPower]_vars

Init == InitUsb /\ InitPowerIdle

Next ==
    \/ \E s \in Slots : \E r \in Returns : probe_of_address_to_resource(s, r)
    \/ \E s \in Slots : \E ok \in BOOLEAN : probe_usb_create_hcd(s, ok)
    \/ \E s \in Slots : \E irq \in {NO_IRQ, Virq(s)} :
          probe_irq_of_parse_and_map(s, irq)
    \/ \E s \in Slots : \E r \in Returns : usb_add_hcd_request_irq(s, r)
    \/ \E s \in Slots : \E r \in Returns : ohci_mipc_start_init(s, r)
    \/ \E s \in Slots : ohci_mipc_start_read(s)
    \/ \E s \in Slots : ohci_mipc_start_write(s)
    \/ \E s \in Slots : \E r \in Returns : ohci_mipc_start_run(s, r)
    \/ \E s \in Slots : \E r \in Returns : usb_add_hcd_register(s, r)
    \/ \E s \in Slots : probe_err_add_hcd(s)
    \/ \E s \in Slots : probe_err_irq(s)
    \/ \E s \in Slots : probe_out(s)
    \/ \E s \in Slots : remove_usb_remove_hcd(s)
    \/ \E s \in Slots : remove_irq_dispose_mapping(s)
    \/ \E s \in Slots : remove_usb_put_hcd(s)
    \/ \E s \in Slots : ohci_hcd_mipc_shutdown(s)

Spec == Init /\ [][Next]_vars

TypeOK ==
    /\ reg \in Nat
    /\ spins \in 0..MaxSpin
    /\ \A s \in Slots : ret[s] \in Int /\ error[s] \in Int

SpecPowerLive == SpecPower /\ WF_vars(NextPower)

\* ------------------------------------------------------------------------
\* Properties
\* ------------------------------------------------------------------------
EnableMask == EHCI_CTL_FIXED + HOLLYWOOD_EHCI_CTL_OH0INTE
                             + HOLLYWOOD_EHCI_CTL_OH1INTE

Released(s) ==
    /\ hcd[s] = NoHcd
    /\ Virq(s) \notin irqmap
    /\ Virq(s) \notin irqaction

Running(s) ==
    /\ hcd[s].live
    /\ hcd[s].engine = "running"
    /\ hcd[s].registered
    /\ Virq(s) \in irqmap

\* C1: a probe that returns an error holds exactly the handles and
\* interrupt-line mappings the slot held before the call (nothing stays
\* allocated, mapped or installed); a probe that returns 0 leaves the
\* controller fully running; and a probe in which no collaborator failed
\* returns 0, also when an earlier probe of the slot had failed.
NoLeakOnFailedProbe ==
    \A s \in Slots :
        /\ ProbeFailed(s) =>
              /\ pc[s] = "unbound"
              /\ Held(s).handle = pre[s].handle
              /\ Held(s).irq = pre[s].irq
              /\ Released(s)
        /\ (ProbeReturned(s) /\ ret[s] = 0) => (pc[s] = "bound" /\ Running(s))
        /\ (ProbeReturned(s) /\ inj[s].point = "none") => ret[s] = 0

\* One slot failed at the last step (bus registration) and was rolled
\* back; the other was brought up successfully right after a failed probe.
NoLeakOnFailedProbe_Witness ==
    /\ \E s \in Slots : ProbeFailed(s) /\ inj[s].point = "register"
    /\ \E u \in Slots : ProbeReturned(u) /\ ret[u] = 0 /\ pre[u].retry

\* C2: once both slots have written the shared register, both enable
\* bits are set and the register differs from its initial value only in
\* the enable bits and the fixed mask, whatever the interleaving of the
\* two reads and writes.
SharedRegisterNoLostUpdate ==
    (\A s \in Slots : "mipc_out_be32" \in Events(s)) =>
        /\ BitAnd(reg, HOLLYWOOD_EHCI_CTL_OH0INTE) # 0
        /\ BitAnd(reg, HOLLYWOOD_EHCI_CTL_OH1INTE) # 0
        /\ BitClear(reg, EnableMask) = BitClear(reg0, EnableMask)
        /\ reg = BitOr(reg0, EnableMask)

\* Both slots read the initial (all clear) register before either wrote,
\* and both have written.
SharedRegisterNoLostUpdate_Witness ==
    /\ reg0 = 0
    /\ \A s \in Slots :
          /\ "mipc_out_be32" \in Events(s)
          /\ pc[s] \in {"start_run", "register", "bound"}
          /\ tmp[s] = 0

\* C3: at most one slot is between its read of the shared register and
\* its write back.
SharedRegisterMutex ==
    Cardinality({s \in Slots : pc[s] = "start_write"}) <= 1

\* C4 as stated: a probe whose interrupt line cannot be mapped returns an
\* error without having allocated a handle during the call.
IrqCheckBeforeAlloc ==
    \A s \in Slots :
        (ProbeReturned(s) /\ inj[s].point = "irq") =>
            (ret[s] # 0 /\ "usb_create_hcd" \notin Events(s))

\* C4 amended: the interrupt line is mapped after the register-window
\* lookup and after the handle allocation; when it cannot be mapped the
\* probe returns -EBUSY, the handle allocated during the call has been
\* released again, and nothing else was touched.
IrqCheckAfterAlloc ==
    \A s \in Slots :
        (ProbeReturned(s) /\ inj[s].point = "irq") =>
            /\ ret[s] = -EBUSY
            /\ log[s] = <<"probe", "of_address_to_resource", "usb_create_hcd",
                          "irq_of_parse_and_map", "usb_put_hcd", "return">>
            /\ Released(s)
            /\ pc[s] = "unbound"

IrqCheckAfterAlloc_Witness ==
    \E s \in Slots : ProbeReturned(s) /\ inj[s].point = "irq"
                     /\ "usb_create_hcd" \in Events(s)

\* C5: after a remove has returned, the slot holds the handles and
\* mappings it held before the probe that created the handle (none), and
\* when no slot is bound or in a call no handle, mapping or handler is
\* live at all.
TeardownMirrorsBringUp ==
    /\ \A s \in Slots :
          RemoveReturned(s) =>
              /\ Held(s).handle = pre[s].handle
              /\ Held(s).irq = pre[s].irq
              /\ Released(s)
              /\ pc[s] = "unbound"
    /\ (\A s \in Slots : pc[s] = "unbound") =>
          /\ irqmap = {}
          /\ irqaction = {}
          /\ \A s \in Slots : hcd[s] = NoHcd

\* Slot 0 was removed while slot 1 is still up.
TeardownMirrorsBringUp_Witness ==
    /\ RemoveReturned(0)
    /\ pc[1] = "bound"

\* C8 as stated: after a probe in which ohci_init succeeded and ohci_run
\* failed, the slot's own enable bit (clear before) is clear.
RunFailureLeavesSlotBitClear ==
    \A s \in Slots :
        (ProbeReturned(s) /\ inj[s].point = "run"
            /\ BitAnd(reg0, SlotBit(s)) = 0)
        => BitAnd(reg, SlotBit(s)) = 0

RemoveTrace ==
    <<"remove", "usb_remove_hcd", "ohci_stop", "irq_dispose_mapping",
      "usb_put_hcd", "return">>

\* C9: a remove performs usb_remove_hcd (which stops the engine), then
\* irq_dispose_mapping, then usb_put_hcd, each once and in this order; a
\* registered controller always has its mapping, and a mapping always has
\* its handle.
TearDownOrder ==
    \A s \in Slots :
        /\ (Len(log[s]) > 0 /\ log[s][1] = "remove") =>
              /\ Len(log[s]) <= Len(RemoveTrace)
              /\ log[s] = SubSeq(RemoveTrace, 1, Len(log[s]))
        /\ RemoveReturned(s) => log[s] = RemoveTrace
        /\ pc[s] = "remove_irq" =>
              /\ ~hcd[s].registered
              /\ hcd[s].engine = "halted"
              /\ Virq(s) \in irqmap
        /\ pc[s] = "remove_put" => (Virq(s) \notin irqmap /\ hcd[s].live)
        /\ hcd[s].registered => Virq(s) \in irqmap
        /\ Virq(s) \in irqmap => hcd[s].live

\* A remove is half way: unregistered and stopped, mapping released,
\* handle still there.
TearDownOrder_Witness ==
    \E s \in Slots : pc[s] = "remove_put"
                     /\ log[s] = SubSeq(RemoveTrace, 1, 4)

\* Remote calls issued by the running machine hook, in order.
IsRemote(c) == c \in RemoteCalls
RemoteIssued == SelectSeq(calls, IsRemote)

\* C6: in a restart whose launch call has no effect and whose assisted
\* restart takes effect, the remote calls are the launch and then the
\* assisted restart, each once; control leaves exactly after the second
\* and the hook never spins.
RestartFallbackOrder ==
    (/\ op = "restart"
     /\ ~effect["starlet_es_reload_ios_and_launch"]
     /\ effect["starlet_stm_restart"])
    => /\ RemoteIssued \in
            {<<>>, <<"starlet_es_reload_ios_and_launch">>,
             <<"starlet_es_reload_ios_and_launch", "starlet_stm_restart">>}
       /\ ppc = "gone" <=>
            RemoteIssued = <<"starlet_es_reload_ios_and_launch",
                             "starlet_stm_restart">>
       /\ ppc \in {"restart_primary", "restart_fallback", "gone"}
       /\ spins = 0

RestartFallbackOrder_Witness ==
    /\ op = "restart"
    /\ ~effect["starlet_es_reload_ios_and_launch"]
    /\ effect["starlet_stm_restart"]
    /\ ppc = "gone"
    /\ Len(RemoteIssued) = 2

SpinStates == {"restart_spin", "power_off_spin"}

TerminalSafeStateInv ==
    /\ ppc = "restart_spin" =>
          /\ op \in {"restart", "halt"}
          /\ RemoteIssued = <<"starlet_es_reload_ios_and_launch",
                              "starlet_stm_restart">>
          /\ ~irqs_on
    /\ ppc = "power_off_spin" =>
          /\ op = "power_off"
          /\ RemoteIssued = <<"starlet_stm_power_off">>
          /\ ~irqs_on
    /\ (/\ op \in {"restart", "halt"}
        /\ ~effect["starlet_es_reload_ios_and_launch"]
        /\ ~effect["starlet_stm_restart"]) => ppc # "gone"
    /\ (op = "power_off" /\ ~effect["starlet_stm_power_off"]) => ppc # "gone"

SpinIsTerminal ==
    ppc \in SpinStates =>
        (ppc' = ppc /\ calls' = calls /\ irqs_on' = irqs_on)

\* C7: when no remote call takes effect, restart ends spinning after
\* exactly two remote calls and power_off after exactly one, with
\* interrupts disabled; from the spin state the hook never leaves, issues
\* no call and does not touch the interrupt state.
TerminalSafeState ==
    /\ []TerminalSafeStateInv
    /\ [][SpinIsTerminal]_vars
    /\ [](( /\ op \in {"restart", "halt"}
            /\ ~effect["starlet_es_reload_ios_and_launch"]
            /\ ~effect["starlet_stm_restart"])
          => <>(ppc = "restart_spin"))
    /\ []((op = "power_off" /\ ~effect["starlet_stm_power_off"])
          => <>(ppc = "power_off_spin"))

\* The restart hook has gone round its terminal loop.
TerminalSafeState_Witness ==
    /\ op = "restart"
    /\ ppc = "restart_spin"
    /\ spins > 0
    /\ Len(RemoteIssued) = 2

KexecTrace ==
    <<"local_irq_disable", "starlet_es_reload_ios_and_discard",
      "default_machine_kexec">>

\* C10: machine_kexec disables interrupts, issues the discard call and
\* jumps to the image, each once and in this order, whether or not the
\* discard took effect; it never spins and makes no other remote call.
KexecOrder ==
    op = "kexec" =>
        /\ Len(calls) <= Len(KexecTrace)
        /\ calls = SubSeq(KexecTrace, 1, Len(calls))
        /\ ppc = "jumped" <=> calls = KexecTrace
        /\ ppc \in {"kexec_discard", "kexec_jump", "jumped"}
        /\ ~irqs_on
        /\ spins = 0

\* The jump happened although the discard call had no effect.
KexecOrder_Witness ==
    /\ op = "kexec"
    /\ ppc = "jumped"
    /\ ~effect["starlet_es_reload_ios_and_discard"]

\* C11: a probe whose register-window lookup fails returns the lookup's
\* error code and has done nothing else: no handle allocated, no
\* interrupt line mapped, no engine call, no access to the shared
\* register.
NoRegisterWindowNoSideEffect ==
    \A s \in Slots :
        /\ (ProbeReturned(s) /\ inj[s].point = "resource") =>
              /\ ret[s] = inj[s].code
              /\ ret[s] # 0
              /\ log[s] = <<"probe", "of_address_to_resource", "return">>
              /\ Released(s)
              /\ pc[s] = "unbound"
        /\ (pc[s] = "out" /\ inj[s].point = "resource") =>
              (log[s] = <<"probe", "of_address_to_resource">> /\ Released(s))

NoRegisterWindowNoSideEffect_Witness ==
    \E s \in Slots : /\ ProbeReturned(s)
                     /\ inj[s].point = "resource"
                     /\ ret[s] = -MaxErr

\* C12: whenever a controller's engine is initialised or running, its
\* interrupt line is mapped and its handler installed on that line; the
\* engine is initialised only after the mapping was made, and the mapping
\* is released only with the engine stopped or never initialised.
EngineHasMappedIrq ==
    \A s \in Slots :
        /\ hcd[s].engine \in {"initialized", "running", "shutdown"} =>
              /\ Virq(s) \in irqmap
              /\ hcd[s].irq = Virq(s)
              /\ hcd[s].irq # NO_IRQ
        /\ Virq(s) \notin irqmap => hcd[s].engine \in {"none", "halted"}
        /\ (Len(log[s]) > 0 /\ log[s][1] = "probe"
              /\ "ohci_init" \in Events(s)) =>
              \E k \in 1..Len(log[s]) :
                  /\ log[s][k] = "irq_of_parse_and_map"
                  /\ \A j \in 1..k : log[s][j] # "ohci_init"

\* An engine is initialised, before the shared register is read.
EngineHasMappedIrq_Witness ==
    \E s \in Slots : /\ pc[s] = "start_read"
                     /\ hcd[s].engine = "initialized"
                     /\ Virq(s) \in irqmap

\* C13 as stated: while only one slot has ever been probed, the enable
\* bit of the other slot keeps its initial value.
OtherSlotBitUntouched ==
    \A s \in Slots : \A u \in Slots \ {s} :
        (log[u] = <<>> /\ "mipc_out_be32" \in Events(s)) =>
            BitAnd(reg, SlotBit(u)) = BitAnd(reg0, SlotBit(u))

\* What a restart does, as a function of the outcome e of the remote
\* calls: the calls it has made once it has gone as far as it can ...
RestartTrace(e) ==
    <<"local_irq_disable", "starlet_es_reload_ios_and_launch">>
    \o (IF e["starlet_es_reload_ios_and_launch"]
        THEN <<>> ELSE <<"starlet_stm_restart">>)

\* ... and where it stands after the calls c.
RestartPosition(c, e) ==
    CASE Len(c) = 1 -> "restart_primary"
      [] Len(c) = 2 -> IF e["starlet_es_reload_ios_and_launch"]
                       THEN "gone" ELSE "restart_fallback"
      [] OTHER      -> IF e["starlet_stm_restart"]
                       THEN "gone" ELSE "restart_spin"

\* C14: for every outcome of the remote calls, a halt makes the calls a
\* restart makes, in the same order, changes the interrupt state the same
\* way and stands where a restart stands: both hooks follow RestartTrace
\* and RestartPosition.
HaltEqualsRestart ==
    op \in {"halt", "restart"} =>
        /\ Len(calls) \in 1..Len(RestartTrace(effect))
        /\ calls = SubSeq(RestartTrace(effect), 1, Len(calls))
        /\ ppc = RestartPosition(calls, effect)
        /\ ~irqs_on
        /\ spins > 0 => ppc = "restart_spin"

\* A halt went through both remote calls and spins.
HaltEqualsRestart_Witness ==
    /\ op = "halt"
    /\ ppc = "restart_spin"
    /\ spins > 0
    /\ Len(calls) = 3

StartFailureTrace ==
    <<"probe", "of_address_to_resource", "usb_create_hcd",
      "irq_of_parse_and_map", "usb_add_hcd", "ohci_init", "mipc_in_be32",
      "mipc_out_be32", "ohci_run", "err", "ohci_stop",
      "irq_dispose_mapping", "usb_put_hcd", "return">>

\* C15: a probe whose ohci_init succeeds and whose ohci_run fails with
\* code c emits one diagnostic, stops the engine once, then releases the
\* interrupt-line mapping, then the handle, and returns c.
RollbackOnRunFailure ==
    \A s \in Slots :
        /\ (ProbeReturned(s) /\ inj[s].point = "run") =>
              /\ ret[s] = inj[s].code
              /\ ret[s] \in ErrCodes
              /\ log[s] = StartFailureTrace
              /\ Released(s)
        /\ (inj[s].point = "run" /\ pc[s] = "err_add_hcd") =>
              /\ log[s] = SubSeq(StartFailureTrace, 1, 11)
              /\ hcd[s].engine = "halted"
              /\ Virq(s) \in irqmap
              /\ error[s] = inj[s].code

RollbackOnRunFailure_Witness ==
    \E s \in Slots : /\ ProbeReturned(s)
                     /\ inj[s].point = "run"
                     /\ ret[s] = -MaxErr

InitFailureTrace ==
    <<"probe", "of_address_to_resource", "usb_create_hcd",
      "irq_of_parse_and_map", "usb_add_hcd", "ohci_init",
      "irq_dispose_mapping", "usb_put_hcd", "return">>

\* The shared register changes only in the write step of ohci_mipc_start.
RegWrittenOnlyByStart ==
    reg' # reg => \E s \in Slots : /\ pc[s] = "start_write"
                                   /\ pc'[s] = "start_run"

EnableGatedOnInitInv ==
    \A s \in Slots :
        /\ (ProbeReturned(s) /\ inj[s].point = "init") =>
              /\ ret[s] = inj[s].code
              /\ ret[s] \in ErrCodes
              /\ log[s] = InitFailureTrace
        /\ (inj[s].point = "init" /\ Len(log[s]) > 0 /\ log[s][1] = "probe") =>
              /\ Events(s) \cap {"mipc_in_be32", "mipc_out_be32", "ohci_run",
                                 "err", "ohci_stop"} = {}
              /\ hcd[s].engine = "none"
        /\ (Len(log[s]) > 0 /\ log[s][1] = "probe"
              /\ "ohci_run" \in Events(s)) =>
              \E k \in 1..Len(log[s]) :
                  /\ log[s][k] = "mipc_out_be32"
                  /\ \A j \in 1..k : log[s][j] # "ohci_run"
                  /\ \E i \in 1..k : log[s][i] = "ohci_init"

\* C16: when ohci_init fails, the start step neither reads nor writes the
\* shared register, calls neither ohci_run nor ohci_stop, and the probe
\* returns the init code; when ohci_init succeeds the register is written
\* before ohci_run is called.
EnableGatedOnInit ==
    /\ []EnableGatedOnInitInv
    /\ [][RegWrittenOnlyByStart]_vars

\* Slot 0 failed in ohci_init with nobody having written the register.
EnableGatedOnInit_Witness ==
    /\ ProbeReturned(0)
    /\ inj[0].point = "init"
    /\ reg = reg0
    /\ BitAnd(reg, HOLLYWOOD_EHCI_CTL_OH1INTE) = 0

GateClosed == platform.usb_disabled \/ platform.ipc_flavour # "MINI"

\* C17: with USB disabled or an IPC flavour other than MINI, every probe
\* returns -ENODEV at once: no lookup, no handle, no mapping, no engine
\* call, and the shared register keeps its initial value.
PlatformGate ==
    GateClosed =>
        /\ reg = reg0
        /\ irqmap = {}
        /\ irqaction = {}
        /\ \A s \in Slots :
              /\ pc[s] = "unbound"
              /\ hcd[s] = NoHcd
              /\ log[s] \in {<<>>, <<"probe", "return">>}
              /\ ProbeReturned(s) => ret[s] = -ENODEV
              /\ error[s] = 0

\* USB is enabled but the flavour is not MINI, and a probe has returned.
PlatformGate_Witness ==
    /\ ~platform.usb_disabled
    /\ platform.ipc_flavour # "MINI"
    /\ \E s \in Slots : ProbeReturned(s) /\ ret[s] = -ENODEV

\* Value the probe returns, given the first collaborator that failed.
ExpectedReturn(f) ==
    CASE f.point = "none"  -> 0
      [] f.point = "gate"  -> -ENODEV
      [] f.point = "alloc" -> -ENOMEM
      [] f.point = "irq"   -> -EBUSY
      [] OTHER             -> f.code

\* C18: the value a probe returns is fixed by the first step that failed
\* (the lookup's, bus's or engine's code as it came, -ENOMEM for the
\* allocation, -EBUSY for the interrupt line); it is 0 exactly when the
\* controller is running and registered, and a non-zero return leaves no
\* handle.
ReturnByFirstFailure ==
    \A s \in Slots :
        ProbeReturned(s) =>
            /\ ret[s] = ExpectedReturn(inj[s])
            /\ inj[s].point # "none" => ret[s] # 0
            /\ ret[s] = 0 <=> (pc[s] = "bound" /\ Running(s))
            /\ ret[s] # 0 => (pc[s] = "unbound" /\ ~hcd[s].live)
            /\ ret[s] = 0 => hcd[s].live

\* One slot returned the allocation error, the other a bus code.
ReturnByFirstFailure_Witness ==
    /\ ProbeReturned(0) /\ inj[0].point = "alloc" /\ ret[0] = -ENOMEM
    /\ ProbeReturned(1) /\ inj[1].point = "register" /\ ret[1] = -MaxErr

IrqsStayOff == ~irqs_on => ~irqs_on'

IrqsOffInv ==
    /\ ppc # "active" => ~irqs_on
    /\ calls # <<>> => (~irqs_on /\ calls[1] = "local_irq_disable")
    /\ \A k \in 2..Len(calls) : calls[k] # "local_irq_disable"
    /\ spins > 0 => ~irqs_on

\* C19: restart, power_off and machine_kexec disable interrupts before
\* anything else; whenever one of them has issued a remote call, spins or
\* has jumped, interrupts are disabled, and they are never enabled again.
IrqsOffBeforeRemoteCalls ==
    /\ []IrqsOffInv
    /\ [][IrqsStayOff]_vars

\* power_off issued its remote call, which had no effect, and now spins.
IrqsOffBeforeRemoteCalls_Witness ==
    /\ op = "power_off"
    /\ ppc = "power_off_spin"
    /\ Len(RemoteIssued) = 1
    /\ ~irqs_on

RemovePositions == {"bound", "remove_irq", "remove_put"}

\* A step keeps every bit that is set, and a step of a remove keeps the
\* register as it is.
NoBitCleared ==
    /\ BitAnd(reg, reg') = reg
    /\ (\E s \in Slots : pc[s] \in RemovePositions /\ pc'[s] # pc[s]) =>
          reg' = reg

\* C20: no step of a probe (successful or failed) or of a remove clears a
\* bit of the shared register; a remove leaves it unchanged, so the
\* enable bits are still set after the controllers are removed.
RegisterBitsNeverCleared ==
    /\ [](BitAnd(reg0, reg) = reg0)
    /\ [](\A s \in Slots :
            (RemoveReturned(s) \/ pc[s] \in RemovePositions) =>
                BitAnd(reg, EnableMask) = EnableMask)
    /\ [][NoBitCleared]_vars

\* Both controllers were removed and the enable bits, clear at the start,
\* are still set.
RegisterBitsNeverCleared_Witness ==
    /\ reg0 = 0
    /\ \A s \in Slots : RemoveReturned(s)
    /\ reg = EnableMask
====
